---- MODULE Spec2Model ----
(***************************************************************************)
(* Model of tools/cross_compiler/common.py: the subprocess runners          *)
(* (run_subprocess / check_subprocess_output / ShellRunner), the toolchain  *)
(* archive installer (extract_and_install_toolchain), the apt package       *)
(* helper (install_compilers_apt_packages) and the working_directory scope. *)
(*                                                                         *)
(* Text is modelled as a sequence of atoms.  In paths and command lines    *)
(* every atom is one character, so that prefix, substring, split and       *)
(* normalisation are computed character by character as the code does.     *)
(***************************************************************************)
EXTENDS Integers, Sequences, FiniteSets, TLC

(***************************************************************************)
(* Bounds                                                                  *)
(***************************************************************************)
MaxMembers == 2
MaxRc == 1

(***************************************************************************)
(* Text helpers (str methods and posixpath functions used by the code)     *)
(***************************************************************************)
Empty == << >>

StartsWith(s, p) ==
    /\ Len(s) >= Len(p)
    /\ SubSeq(s, 1, Len(p)) = p

EndsWith(s, p) ==
    /\ Len(s) >= Len(p)
    /\ SubSeq(s, Len(s) - Len(p) + 1, Len(s)) = p

\* `sub in s` for str operands
Contains(s, sub) ==
    \E i \in 1..(Len(s) - Len(sub) + 1) : SubSeq(s, i, i + Len(sub) - 1) = sub

\* position of the first occurrence of atom c in s, 0 if none
RECURSIVE FindFrom(_, _, _)
FindFrom(s, c, i) ==
    IF i > Len(s) THEN 0
    ELSE IF s[i] = c THEN i
    ELSE FindFrom(s, c, i + 1)

\* s.split(c): the pieces between occurrences of c, empty pieces kept
RECURSIVE SplitOn(_, _)
SplitOn(s, c) ==
    LET i == FindFrom(s, c, 1) IN
    IF i = 0 THEN << s >>
    ELSE << SubSeq(s, 1, i - 1) >> \o SplitOn(SubSeq(s, i + 1, Len(s)), c)

\* s.split(): the whitespace-separated words, empty pieces dropped
SplitWords(s) == SelectSeq(SplitOn(s, " "), LAMBDA w : w # Empty)

\* c.join(parts)
RECURSIVE JoinWith(_, _)
JoinWith(parts, c) ==
    IF parts = << >> THEN Empty
    ELSE IF Len(parts) = 1 THEN parts[1]
    ELSE parts[1] \o << c >> \o JoinWith(Tail(parts), c)

\* c.join(s) for a str s: the separator goes between the characters of s
JoinChars(s, c) == JoinWith([i \in 1..Len(s) |-> << s[i] >>], c)

\* os.path.isabs
isabs(p) == StartsWith(p, << "/" >>)

\* os.path.join(a, b)
join(a, b) ==
    IF isabs(b) THEN b
    ELSE IF a = Empty \/ EndsWith(a, << "/" >>) THEN a \o b
    ELSE a \o << "/" >> \o b

\* the loop of posixpath.normpath over the split components
RECURSIVE NormComps(_, _, _)
NormComps(comps, new_comps, initial_slashes) ==
    IF comps = << >> THEN new_comps
    ELSE LET comp == Head(comps)
             rest == Tail(comps)
         IN  IF comp = Empty \/ comp = << "." >>
             THEN NormComps(rest, new_comps, initial_slashes)
             ELSE IF \/ comp # << ".", "." >>
                     \/ (~initial_slashes /\ new_comps = << >>)
                     \/ (new_comps # << >> /\ new_comps[Len(new_comps)] = << ".", "." >>)
             THEN NormComps(rest, Append(new_comps, comp), initial_slashes)
             ELSE IF new_comps # << >>
             THEN NormComps(rest, SubSeq(new_comps, 1, Len(new_comps) - 1), initial_slashes)
             ELSE NormComps(rest, new_comps, initial_slashes)

\* os.path.normpath
normpath(path) ==
    IF path = Empty THEN << "." >>
    ELSE LET initial_slashes == isabs(path)
             joined == JoinWith(NormComps(SplitOn(path, "/"), << >>, initial_slashes), "/")
             res == IF initial_slashes THEN << "/" >> \o joined ELSE joined
         IN  IF res = Empty THEN << "." >> ELSE res

\* os.path.abspath, relative to the working directory wd
abspath(path, wd) ==
    IF isabs(path) THEN normpath(path) ELSE normpath(join(wd, path))

\* os.path.commonprefix of two strings: the longest common leading run of characters
RECURSIVE CommonLen(_, _, _)
CommonLen(a, b, i) ==
    IF i > Len(a) \/ i > Len(b) THEN i - 1
    ELSE IF a[i] # b[i] THEN i - 1
    ELSE CommonLen(a, b, i + 1)

commonprefix(a, b) == SubSeq(a, 1, CommonLen(a, b, 1))

\* index of the last "/" in p, 0 if none
RECURSIVE RFindSlash(_, _)
RFindSlash(p, i) ==
    IF i = 0 THEN 0
    ELSE IF p[i] = "/" THEN i
    ELSE RFindSlash(p, i - 1)

\* s.rstrip('/')
RECURSIVE RStripSlash(_)
RStripSlash(s) ==
    IF s # Empty /\ s[Len(s)] = "/" THEN RStripSlash(SubSeq(s, 1, Len(s) - 1)) ELSE s

\* os.path.dirname
dirname(p) ==
    LET head == SubSeq(p, 1, RFindSlash(p, Len(p))) IN
    IF head # Empty /\ RStripSlash(head) # Empty THEN RStripSlash(head) ELSE head

(***************************************************************************)
(* Input domains                                                           *)
(***************************************************************************)
\* captured output of a child: nothing, or some text
Outs == { Empty, << "o" >> }

\* process environments the program can be started with
Environs == { [k \in {"PATH"} |-> "a"], [k \in {"PATH", "CC"} |-> "a"] }

\* env / update_env argument: None, or a mapping
NoneEnv == [isNone |-> TRUE, map |-> << >>]
EnvArgs == { NoneEnv,
             [isNone |-> FALSE, map |-> << >>],
             [isNone |-> FALSE, map |-> [k \in {"CC"} |-> "b"]],
             [isNone |-> FALSE, map |-> [k \in {"PATH"} |-> "b"]] }

\* directories that exist, and one that does not
ExistingDirs == { << "/", "d" >>, << "/", "d", "/", "t" >>, << "/", "w" >> }
MissingDir == << "/", "n" >>
\* a directory the wrapped body makes for itself
BodyDir == << "/", "b" >>

\* a command: a str (run through the shell or split), or a list of words,
\* each word a str or a pathlib.Path
StrCmd(text) == [kind |-> "str", text |-> text, words |-> << >>]
ListCmd(words) == [kind |-> "list", text |-> Empty, words |-> words]
Word(s) == [isPath |-> FALSE, s |-> s]
PathWord(s) == [isPath |-> TRUE, s |-> s]
NoCmd == StrCmd(Empty)

ShellCmds == { StrCmd(<< "l", "s", " ", "x" >>),
               ListCmd(<< Word(<< "l", "s" >>), PathWord(<< "/", "d" >>) >>) }
CommandLines == { << "l", "s", " ", "x" >>, << "m", "k" >> }

\* what the child does: exits with a code and output, or never exits
Children == [returncode : 0..MaxRc, stdout : Outs, stderr : Outs, hangs : {FALSE}]
Hanging == [returncode |-> 0, stdout |-> Empty, stderr |-> Empty, hangs |-> TRUE]

NoProc == [args |-> NoCmd, returncode |-> 0, stdout |-> Empty, stderr |-> Empty]

(***************************************************************************)
(* Logging.  The logger is supplied by the caller; logger_raises says      *)
(* whether it raises on a message that carries the raw captured result     *)
(* (the encoding failure the fallback branches are written for).  Constant *)
(* messages and messages carrying the encoded bytes are accepted.          *)
(***************************************************************************)
LogRec(level, msg) == [level |-> level, msg |-> msg]

\* "CMD <{}> RETURNED <{}>.\n".format(cmd, return_code)
Header(cmd, return_code) ==
    << "CMD <" >> \o cmd \o << "> RETURNED <", ToString(return_code), ">.\n" >>

\* " ".join(args) / " ".join([str(w) for w in args])
JoinArgs(args) ==
    IF args.kind = "list"
    THEN JoinWith([i \in 1..Len(args.words) |-> args.words[i].s], " ")
    ELSE JoinChars(args.text, " ")

\* ShellRunner._convert_pathlib_instance_to_str
_convert_pathlib_instance_to_str(arr) ==
    [i \in 1..Len(arr) |-> IF arr[i].isPath THEN Word(arr[i].s) ELSE arr[i]]

\* ShellRunner._log_subprocess: the records emitted, and whether the logger call raised
_log_subprocess(subprocess_results, logger_raises) ==
    LET out == subprocess_results.stdout
        err == subprocess_results.stderr
        return_code == subprocess_results.returncode
        cmd == JoinArgs(subprocess_results.args)
        m0 == Header(cmd, return_code)
        m1 == IF out # Empty THEN m0 \o << "STDOUT was:\n" >> \o out \o << "\n" >> ELSE m0
        log_message == IF err # Empty THEN m1 \o << "STDERR was:\n" >> \o err \o << "\n" >> ELSE m1
    IN  IF logger_raises
        THEN [raised |-> TRUE, logs |-> << >>]
        ELSE IF return_code = 0
        THEN [raised |-> FALSE, logs |-> << LogRec("debug", log_message) >>]
        ELSE [raised |-> FALSE,
              logs |-> << LogRec("error",
                                 << "An error occurred when running a sub-process: " >> \o log_message) >>]

\* the outcome of one call: how it ended, the error raised or the value
\* returned, the log records emitted and the children spawned
Effect(outcome, raised, result, logs, spawns) ==
    [outcome |-> outcome, raised |-> raised, result |-> result, logs |-> logs, spawns |-> spawns]

SpawnRec(args, shell, env, child) ==
    [args |-> args, shell |-> shell, env |-> env, child |-> child]

\* ShellRunner.run
ShellRunnerRun(shell_cmd, env, ignore_errors, timeout, shell, child, logger_raises, environ) ==
    LET cmd == IF shell_cmd.kind = "list"
               THEN ListCmd(_convert_pathlib_instance_to_str(shell_cmd.words))
               ELSE shell_cmd
        child_env == IF env.isNone THEN environ ELSE env.map
        sp == << SpawnRec(cmd, shell, child_env, child) >>
        p == [args |-> cmd, returncode |-> child.returncode,
              stdout |-> child.stdout, stderr |-> child.stderr]
        lg == _log_subprocess(p, logger_raises)
    IN  IF child.hangs
        THEN Effect("TimeoutExpired", NoProc, NoProc, << >>, sp)
        ELSE IF lg.raised
        THEN Effect("LoggerError", NoProc, NoProc, lg.logs, sp)
        ELSE IF ~ignore_errors /\ p.returncode # 0
        THEN Effect("CalledProcessError", p, NoProc, lg.logs, sp)
        ELSE Effect("returned", NoProc, p, lg.logs, sp)

\* check_subprocess_output
check_subprocess_output(subprocess_output, logger_raises) ==
    LET cmd == JoinArgs(subprocess_output.args)
        return_code == subprocess_output.returncode
        subprocess_stdout == subprocess_output.stdout
        subprocess_stderr == subprocess_output.stderr
        m0 == Header(cmd, return_code)
        m1 == IF subprocess_stdout # Empty
              THEN m0 \o m0 \o << "STDOUT was:\n" >> \o subprocess_stdout \o << "\n" >>
              ELSE m0
        log_message == IF subprocess_stderr # Empty
                       THEN m1 \o m1 \o << "STDERR was:\n" >> \o subprocess_stderr \o << "\n" >>
                       ELSE m1
        encoded == << "Encoded log message:\n", "b'" >> \o log_message \o << "'" >>
        err == [args |-> StrCmd(cmd), returncode |-> return_code,
                stdout |-> subprocess_stdout, stderr |-> subprocess_stderr]
    IN  IF return_code = 0
        THEN Effect("returned", NoProc, NoProc,
                    IF logger_raises
                    THEN << LogRec("warning", << "An error occurred when trying to logging the output date" >>),
                            LogRec("debug", encoded) >>
                    ELSE << LogRec("debug", log_message) >>,
                    << >>)
        ELSE Effect("CalledProcessError", err, NoProc,
                    IF logger_raises
                    THEN << LogRec("error", << "An error occurred when trying to logging the output date" >>),
                            LogRec("error", encoded) >>
                    ELSE << LogRec("error",
                                   << "An error occurred when running a sub-process: " >> \o log_message) >>,
                    << >>)

\* the environment run_subprocess builds: a copy of os.environ with update_env written over it
MergedEnv(environ, update_env) ==
    LET upd == IF update_env.isNone THEN << >> ELSE update_env.map IN
    [k \in DOMAIN environ \cup DOMAIN upd |-> IF k \in DOMAIN upd THEN upd[k] ELSE environ[k]]

\* run_subprocess without the check of the child's result
run_subprocess_unchecked(command_line, logger_raises, check_output, shell, update_env, child, environ) ==
    LET current_env == MergedEnv(environ, update_env)
        args == IF shell THEN StrCmd(command_line)
                ELSE ListCmd([i \in 1..Len(SplitWords(command_line)) |-> Word(SplitWords(command_line)[i])])
    IN  Effect("returned", NoProc, NoProc, << >>, << SpawnRec(args, shell, current_env, child) >>)

\* run_subprocess
run_subprocess(command_line, logger_raises, check_output, shell, update_env, child, environ) ==
    LET current_env == MergedEnv(environ, update_env)
        args == IF shell THEN StrCmd(command_line)
                ELSE ListCmd([i \in 1..Len(SplitWords(command_line)) |-> Word(SplitWords(command_line)[i])])
        sp == << SpawnRec(args, shell, current_env, child) >>
        output == [args |-> args, returncode |-> child.returncode,
                   stdout |-> child.stdout, stderr |-> child.stderr]
        chk == check_subprocess_output(output, logger_raises)
    IN  IF check_output
        THEN Effect(chk.outcome, chk.raised, NoProc, chk.logs, sp)
        ELSE Effect("returned", NoProc, NoProc, << >>, sp)

(***************************************************************************)
(* Toolchain archives                                                      *)
(***************************************************************************)
\* member names an archive may hold:
\*   i.sh  r.t  n.sh.t  x.shd/f  ../../e/p  ../te/x
MemberNames == { << "i", ".", "s", "h" >>,
                 << "r", ".", "t" >>,
                 << "n", ".", "s", "h", ".", "t" >>,
                 << "x", ".", "s", "h", "d", "/", "f" >>,
                 << ".", ".", "/", ".", ".", "/", "e", "/", "p" >>,
                 << ".", ".", "/", "t", "e", "/", "x" >> }

RECURSIVE SeqsUpTo(_, _)
SeqsUpTo(S, n) ==
    IF n = 0 THEN { << >> }
    ELSE SeqsUpTo(S, n - 1) \cup { Append(q, x) : q \in SeqsUpTo(S, n - 1), x \in S }

Archives == SeqsUpTo(MemberNames, MaxMembers)

\* tar_path: /d/t/a or a (relative to the working directory)
TarPaths == { << "/", "d", "/", "t", "/", "a" >>, << "a" >> }

\* dir_to_install_toolchain_in: /o or "m y"
InstallDirs == { << "/", "o" >>, << "m", " ", "y" >> }

\* Path.parent
PathParent(p) == IF dirname(p) = Empty THEN << "." >> ELSE dirname(p)

\* Path / Path, as str
PathJoin(a, b) ==
    IF isabs(b) THEN b
    ELSE IF a = << "." >> THEN b
    ELSE join(a, b)

\* the installer marker test on a member name
IsInstallerName(name) == Contains(name, << ".", "s", "h" >>)

\* the toolchain_installers list comprehension
DiscoverInstallers(tar_path, members) ==
    LET picked == SelectSeq(members, IsInstallerName) IN
    [i \in 1..Len(picked) |-> PathJoin(PathParent(tar_path), picked[i])]

\* is_within_directory, evaluated in working directory wd
is_within_directory(directory, target, wd) ==
    LET abs_directory == abspath(directory, wd)
        abs_target == abspath(target, wd)
        prefix == commonprefix(abs_directory, abs_target)
    IN  prefix = abs_directory

\* the checking loop of safe_extract: the guard's verdict on each member it
\* looked at, up to and including the first rejected one
RECURSIVE GuardLoop(_, _, _)
GuardLoop(members, path, wd) ==
    IF members = << >> THEN << >>
    ELSE LET ok == is_within_directory(path, join(path, Head(members)), wd) IN
         IF ok THEN << TRUE >> \o GuardLoop(Tail(members), path, wd)
         ELSE << FALSE >>

\* tar.extractall(path): where each member is written
ExtractAll(members, path, wd) ==
    { abspath(join(path, members[i]), wd) : i \in 1..Len(members) }

\* "{} -d {} -y".format(toolchain_installer, dir_to_install_toolchain_in)
InstallerCommandLine(toolchain_installer, dir) ==
    toolchain_installer \o << " ", "-", "d", " " >> \o dir \o << " ", "-", "y" >>

InstallerChildren == [returncode : 0..MaxRc, stdout : Outs, stderr : { Empty }, hangs : { FALSE }]

(***************************************************************************)
(* Host compiler packages                                                  *)
(***************************************************************************)
\* Arch, by value
AARCH64 == << "aarch64" >>
ARMV7L == << "armv7l" >>
ARMV7LHF == << "armv7lhf" >>
Arch == { AARCH64, ARMV7L, ARMV7LHF }

\* the package list with the hard-float branch left out
apt_packages_no_hardfloat(arch) ==
    IF arch = ARMV7L
    THEN << << "g++-", "arm", "-linux-gnu", "eabi" >>, << "gcc-", "arm", "-linux-gnu", "eabi" >> >>
    ELSE << << "g++-" >> \o arch \o << "-linux-gnu" >>, << "gcc-" >> \o arch \o << "-linux-gnu" >> >>

\* the package list chosen for an architecture
apt_packages(arch) ==
    IF arch = ARMV7L
    THEN << << "g++-", "arm", "-linux-gnu", "eabi" >>, << "gcc-", "arm", "-linux-gnu", "eabi" >> >>
    ELSE IF arch = ARMV7LHF
    THEN << << "g++-", "arm", "-linux-gnu", "eabihf" >>, << "gcc-", "arm", "-linux-gnu", "eabihf" >> >>
    ELSE << << "g++-" >> \o arch \o << "-linux-gnu" >>, << "gcc-" >> \o arch \o << "-linux-gnu" >> >>

\* f'sudo apt-get install -y {" ".join(apt_packages)}'
AptCommand(arch) ==
    StrCmd(<< "sudo", " ", "apt-get", " ", "install", " ", "-y", " " >> \o JoinWith(apt_packages(arch), " "))

\* install_compilers_apt_packages: one ShellRunner.run with the default
\* logger, in shell mode, every other parameter at its default
install_compilers_apt_packages(arch, child, environ) ==
    ShellRunnerRun(AptCommand(arch), NoneEnv, FALSE, "None", TRUE, child, FALSE, environ)

(***************************************************************************)
(* working_directory                                                       *)
(***************************************************************************)
\* leaving the scope with the restore done only on normal return
working_directory_exit_no_finally(current_directory, now, body_raises) ==
    IF body_raises THEN now ELSE current_directory

\* the finally clause: the directory the process is in when the scope is left
working_directory_exit(current_directory, now, body_raises) == current_directory

(***************************************************************************)
(* State                                                                   *)
(***************************************************************************)
VARIABLES
    os_environ,            \* os.environ
    cwd,                   \* the process's working directory
    pc,                    \* "idle", "in_body", "installing", "done"
    op,                    \* the operation called
    entry,                 \* os.environ and working directory when it was called
    outcome,               \* "returned" or the exception that left the call
    raised,                \* the CalledProcessError raised, if any
    result,                \* the CompletedProcess returned, if any
    logs,                  \* log records emitted, in order
    spawns,                \* children spawned, in order
    env_arg,               \* env / update_env
    ignore_errors,
    check_output,
    timeout,
    logger_raises,
    tar_path,
    install_dir,
    archive,               \* member names of the archive, in archive order
    toolchain_installers,
    next_i,                \* position of the installer loop
    checked,               \* verdicts of the path guard
    fs,                    \* files written by the extraction
    arch,
    current_directory      \* working_directory's saved directory

vars == << os_environ, cwd, pc, op, entry, outcome, raised, result, logs, spawns,
           env_arg, ignore_errors, check_output, timeout, logger_raises,
           tar_path, install_dir, archive, toolchain_installers, next_i, checked, fs,
           arch, current_directory >>

procVars == << os_environ, cwd >>
runArgs == << env_arg, ignore_errors, check_output, timeout, logger_raises >>
tarVars == << tar_path, install_dir, archive, toolchain_installers, next_i, checked, fs >>

Init ==
    /\ os_environ \in Environs
    /\ cwd \in ExistingDirs
    /\ pc = "idle"
    /\ op = "none"
    /\ entry = [environ |-> os_environ, cwd |-> cwd]
    /\ outcome = "none"
    /\ raised = NoProc
    /\ result = NoProc
    /\ logs = << >>
    /\ spawns = << >>
    /\ env_arg = NoneEnv
    /\ ignore_errors = FALSE
    /\ check_output = TRUE
    /\ timeout = "None"
    /\ logger_raises = FALSE
    /\ tar_path = Empty
    /\ install_dir = Empty
    /\ archive = << >>
    /\ toolchain_installers = << >>
    /\ next_i = 1
    /\ checked = << >>
    /\ fs = {}
    /\ arch = AARCH64
    /\ current_directory = cwd

\* a call ends with the given effect
Finish(eff) ==
    /\ pc' = "done"
    /\ outcome' = eff.outcome
    /\ raised' = eff.raised
    /\ result' = eff.result
    /\ logs' = logs \o eff.logs
    /\ spawns' = spawns \o eff.spawns

(***************************************************************************)
(* Actions                                                                 *)
(***************************************************************************)
\* a call of ShellRunner.run
Run ==
    /\ pc = "idle"
    /\ \E shell_cmd \in ShellCmds, env \in EnvArgs, ign \in BOOLEAN, tmo \in { "None", "1s" },
          shell \in BOOLEAN, child \in Children \cup { Hanging }, lr \in BOOLEAN :
          /\ child.hangs => tmo # "None"
          /\ op' = "run"
          /\ env_arg' = env
          /\ ignore_errors' = ign
          /\ timeout' = tmo
          /\ logger_raises' = lr
          /\ Finish(ShellRunnerRun(shell_cmd, env, ign, tmo, shell, child, lr, os_environ))
    /\ UNCHANGED << procVars, entry, check_output, tarVars, arch, current_directory >>

\* a call of run_subprocess
RunSubprocess ==
    /\ pc = "idle"
    /\ \E command_line \in CommandLines, env \in EnvArgs, chk \in BOOLEAN,
          shell \in BOOLEAN, child \in Children, lr \in BOOLEAN :
          /\ op' = "run_subprocess"
          /\ env_arg' = env
          /\ check_output' = chk
          /\ logger_raises' = lr
          /\ Finish(run_subprocess(command_line, lr, chk, shell, env, child, os_environ))
    /\ UNCHANGED << procVars, entry, ignore_errors, timeout, tarVars, arch, current_directory >>

\* a call of install_compilers_apt_packages
InstallCompilersAptPackages ==
    /\ pc = "idle"
    /\ \E a \in Arch, child \in Children :
          /\ op' = "apt"
          /\ arch' = a
          /\ Finish(install_compilers_apt_packages(a, child, os_environ))
    /\ UNCHANGED << procVars, entry, runArgs, tarVars, current_directory >>

\* extract_and_install_toolchain up to the installer loop: discovery,
\* the path guard and the extraction
ExtractStart ==
    /\ pc = "idle"
    /\ \E tp \in TarPaths, dir \in InstallDirs, members \in Archives, lr \in BOOLEAN :
          LET tar_dir == dirname(tp)
              installers == DiscoverInstallers(tp, members)
              verdicts == GuardLoop(members, tar_dir, cwd)
              info1 == << LogRec("info", << "extracting toolchain" >>) >>
          IN  /\ op' = "extract"
              /\ tar_path' = tp
              /\ install_dir' = dir
              /\ archive' = members
              /\ logger_raises' = lr
              /\ toolchain_installers' = installers
              /\ next_i' = 1
              /\ raised' = NoProc
              /\ result' = NoProc
              /\ spawns' = << >>
              /\ IF Len(installers) = 0
                 THEN /\ outcome' = "FileNotFoundError"
                      /\ pc' = "done"
                      /\ checked' = << >>
                      /\ fs' = {}
                      /\ logs' = info1
                 ELSE IF \E i \in DOMAIN verdicts : ~verdicts[i]
                 THEN /\ outcome' = "PathTraversal"
                      /\ pc' = "done"
                      /\ checked' = verdicts
                      /\ fs' = {}
                      /\ logs' = info1
                 ELSE /\ outcome' = "none"
                      /\ pc' = "installing"
                      /\ checked' = verdicts
                      /\ fs' = ExtractAll(members, tar_dir, cwd)
                      /\ logs' = info1 \o << LogRec("info", << "installing toolchain" >>) >>
    /\ UNCHANGED << procVars, entry, env_arg, ignore_errors, check_output, timeout,
                    arch, current_directory >>

\* one iteration of the installer loop
InstallNext ==
    /\ pc = "installing"
    /\ \E child \in InstallerChildren :
          LET toolchain_installer == toolchain_installers[next_i]
              eff == run_subprocess(InstallerCommandLine(toolchain_installer, install_dir),
                                    logger_raises, TRUE, FALSE, NoneEnv, child, os_environ)
              info == << LogRec("info", << "installing " >> \o toolchain_installer) >>
          IN  /\ logs' = logs \o info \o eff.logs
              /\ spawns' = spawns \o eff.spawns
              /\ IF eff.outcome # "returned"
                 THEN /\ pc' = "done"
                      /\ outcome' = eff.outcome
                      /\ raised' = eff.raised
                      /\ next_i' = next_i
                 ELSE IF next_i = Len(toolchain_installers)
                 THEN /\ pc' = "done"
                      /\ outcome' = "returned"
                      /\ raised' = NoProc
                      /\ next_i' = next_i
                 ELSE /\ pc' = "installing"
                      /\ outcome' = "none"
                      /\ raised' = NoProc
                      /\ next_i' = next_i + 1
    /\ UNCHANGED << procVars, op, entry, result, runArgs,
                    tar_path, install_dir, archive, toolchain_installers, checked, fs,
                    arch, current_directory >>

\* entering working_directory(target_directory)
WdEnter ==
    /\ pc = "idle"
    /\ \E target_directory \in ExistingDirs \cup { MissingDir } :
          /\ op' = "wd"
          /\ current_directory' = cwd
          /\ IF target_directory \in ExistingDirs
             THEN /\ cwd' = target_directory
                  /\ pc' = "in_body"
                  /\ outcome' = "none"
             ELSE /\ cwd' = working_directory_exit(cwd, cwd, TRUE)
                  /\ pc' = "done"
                  /\ outcome' = "FileNotFoundError"
    /\ UNCHANGED << os_environ, entry, raised, result, logs, spawns, runArgs, tarVars, arch >>

\* the wrapped body changes directory itself
WdBodyChdir ==
    /\ pc = "in_body"
    /\ \E d \in ExistingDirs \cup { BodyDir } :
          /\ d # cwd
          /\ cwd' = d
    /\ UNCHANGED << os_environ, pc, op, entry, outcome, raised, result, logs, spawns,
                    runArgs, tarVars, arch, current_directory >>

\* the wrapped body returns or raises, and the scope is left
WdExit ==
    /\ pc = "in_body"
    /\ \E body_raises \in BOOLEAN :
          /\ cwd' = working_directory_exit(current_directory, cwd, body_raises)
          /\ outcome' = IF body_raises THEN "BodyError" ELSE "returned"
    /\ pc' = "done"
    /\ UNCHANGED << os_environ, op, entry, raised, result, logs, spawns,
                    runArgs, tarVars, arch, current_directory >>

Next ==
    \/ RunSubprocess
    \/ Run
    \/ InstallCompilersAptPackages
    \/ ExtractStart
    \/ InstallNext
    \/ WdEnter
    \/ WdBodyChdir
    \/ WdExit

Spec == Init /\ [][Next]_vars

(***************************************************************************)
(* Properties                                                              *)
(***************************************************************************)
\* the child of the (single) spawn of a finished run / run_subprocess / apt call
TheChild == spawns[1].child
Completed == pc = "done" /\ Len(spawns) = 1 /\ ~TheChild.hangs

\* the non-empty components of a path
Components(p) == SelectSeq(SplitOn(p, "/"), LAMBDA c : c # Empty)

\* target, resolved, is directory, resolved, or lies below it by whole components
IsDescendant(directory, target, wd) ==
    LET d == Components(abspath(directory, wd))
        t == Components(abspath(target, wd))
    IN  Len(t) >= Len(d) /\ SubSeq(t, 1, Len(d)) = d

\* member i of the archive, joined to the extraction root, resolves outside it
Escapes(i) == ~IsDescendant(dirname(tar_path), join(dirname(tar_path), archive[i]), cwd)

\* C1: an archive with a member that resolves outside the extraction root is
\* rejected with the path-traversal error, nothing is extracted and no
\* installer is run, whatever else the archive holds.
C1_TraversalRejected ==
    (op = "extract" /\ \E i \in DOMAIN archive : Escapes(i))
        => (pc = "done" /\ outcome = "PathTraversal" /\ fs = {} /\ spawns = << >>)

\* C2: ShellRunner.run raises CalledProcessError exactly when the exit code
\* is non-zero and ignore_errors is false, the error carrying command, exit
\* code, stdout and stderr; in every other case it returns a result holding
\* the exit code.
C2_RaisesIffNonZeroAndNotIgnored ==
    (op = "run" /\ Completed) =>
        LET fails == TheChild.returncode # 0 /\ ~ignore_errors
            p == [args |-> spawns[1].args, returncode |-> TheChild.returncode,
                  stdout |-> TheChild.stdout, stderr |-> TheChild.stderr]
        IN  /\ (outcome = "CalledProcessError") <=> fails
            /\ fails => raised = p
            /\ ~fails => (outcome = "returned" /\ result.returncode = TheChild.returncode)

\* base with over written on top of it
Overlay(base, over) ==
    [k \in DOMAIN base \cup DOMAIN over |-> IF k \in DOMAIN over THEN over[k] ELSE base[k]]

\* C3: the child's environment is the process environment with the caller's
\* mapping merged on top, and the process environment is unchanged by the
\* call, for ShellRunner.run and for run_subprocess.
C3_ChildEnvIsMerged ==
    (op \in { "run", "run_subprocess" } /\ pc = "done") =>
        /\ spawns[1].env = Overlay(entry.environ, IF env_arg.isNone THEN << >> ELSE env_arg.map)
        /\ os_environ = entry.environ

\* C4: every completed invocation through ShellRunner.run or run_subprocess
\* emits exactly one log record for the result, at debug level for exit code
\* 0 and at error level otherwise.
C4_OneResultRecord ==
    (op \in { "run", "run_subprocess" } /\ Completed) =>
        /\ Len(logs) = 1
        /\ logs[1].level = IF TheChild.returncode = 0 THEN "debug" ELSE "error"

\* C5: when the logger call that records the result raises, the failure does
\* not reach the caller: a fallback line is logged and the call ends as it
\* would have with a working logger.
C5_LoggingFailureContained ==
    (op \in { "run", "run_subprocess" } /\ Completed /\ logger_raises
        /\ (op = "run_subprocess" => check_output)) =>
        LET suppressed == IF op = "run" THEN ignore_errors ELSE ~check_output IN
        /\ outcome = IF TheChild.returncode # 0 /\ ~suppressed
                     THEN "CalledProcessError" ELSE "returned"
        /\ Len(logs) >= 1

\* the argv of the installer command: "<installer> -d <dir> -y" split on whitespace
InstallerArgv(toolchain_installer, dir) ==
    LET ws == SplitWords(toolchain_installer) \o << << "-", "d" >> >>
              \o SplitWords(dir) \o << << "-", "y" >> >>
    IN  ListCmd([i \in 1..Len(ws) |-> Word(ws[i])])

TablePackages(a) ==
    IF a = ARMV7L
    THEN { << "g++-", "arm", "-linux-gnu", "eabi" >>, << "gcc-", "arm", "-linux-gnu", "eabi" >> }
    ELSE IF a = ARMV7LHF
    THEN { << "g++-", "arm", "-linux-gnu", "eabihf" >>, << "gcc-", "arm", "-linux-gnu", "eabihf" >> }
    ELSE { << "g++-", "aarch64", "-linux-gnu" >>, << "gcc-", "aarch64", "-linux-gnu" >> }

\* C7: install_compilers_apt_packages issues exactly one install command
\* whose package set is the table's for the architecture, in shell mode, with
\* errors not suppressed.
C7_AptPackagesMatchTable ==
    (op = "apt" /\ pc = "done") =>
        LET words == SplitWords(spawns[1].args.text) IN
        /\ Len(spawns) = 1
        /\ spawns[1].shell
        /\ spawns[1].args.kind = "str"
        /\ Len(words) = 6
        /\ SubSeq(words, 1, 4) = << << "sudo" >>, << "apt-get" >>, << "install" >>, << "-y" >> >>
        /\ { words[5], words[6] } = TablePackages(arch)
        /\ (outcome = "CalledProcessError") <=> (TheChild.returncode # 0)
        /\ (outcome = "returned") <=> (TheChild.returncode = 0)

\* the hard-float install command failed and the failure reached the caller
C7_Witness ==
    /\ op = "apt"
    /\ pc = "done"
    /\ arch = ARMV7LHF
    /\ outcome = "CalledProcessError"

\* C8: after any use of working_directory the working directory is what it
\* was on entry, whether the body returned, raised, or the change into the
\* target failed.
C8_WorkingDirectoryRestored ==
    (op = "wd" /\ pc = "done") => cwd = entry.cwd

\* the body raised
C8_Witness ==
    /\ op = "wd"
    /\ pc = "done"
    /\ outcome = "BodyError"

\* the members whose name ends with .sh, as installer paths, in archive order
SuffixInstallers ==
    LET picked == SelectSeq(archive, LAMBDA n : EndsWith(n, << ".", "s", "h" >>)) IN
    [i \in 1..Len(picked) |-> PathJoin(PathParent(tar_path), picked[i])]

\* C9: the installer candidates are exactly the members whose name ends with
\* .sh, in archive order; with no candidate the operation fails with the
\* installer-not-found error and runs no command.
C9_InstallersAreSuffixMembers ==
    (op = "extract") =>
        /\ toolchain_installers = SuffixInstallers
        /\ SuffixInstallers = << >> => (outcome = "FileNotFoundError" /\ spawns = << >>)

\* C10: is_within_directory is true exactly when the resolved target is the
\* resolved directory or lies below it by whole path components.
C10_GuardIsDescendant ==
    (op = "extract") =>
        \A i \in DOMAIN checked : checked[i] = ~Escapes(i)

====
